---- MODULE Spec2Model ----
(***************************************************************************)
(* A model of size-label-action (src/index.js): the pull-request labeller  *)
(* that counts added Cyrillic characters in a diff, maps the count to a    *)
(* size label and reconciles it with the labels the pull request carries.  *)
(*                                                                         *)
(* JavaScript strings are TLA+ strings (Len, SubSeq and \o act on them);   *)
(* the text of a diff line is a sequence of UTF-16 code units, because the *)
(* program classifies its characters by code (UKRAINIAN_REGEX).            *)
(***************************************************************************)
EXTENDS Integers, Sequences, FiniteSets, TLC

VARIABLES
  pc,                          \* where main (or the function under test) stands
  IGNORED,                     \* process.env.IGNORED ("" when unset)
  INPUT_SIZES,                 \* process.env.INPUT_SIZES, parsed: [defined, table]
  ignored,                     \* parseIgnored's compiled rule list
  path,                        \* the argument of the last isIgnored call
  ignoredResult,               \* what that call returned
  labels,                      \* eventData.pull_request.labels
  diffData,                    \* Diff.parsePatch(pullRequestDiff.data)
  ukrainianCharactersNumber,   \* the metric
  hasUpdatedOldMarkdownFiles,
  sizeLabel,
  add,
  remove,
  idx,                         \* position of the removal loop in remove
  requests,                    \* the mutating requests issued so far, in order
  failed,                      \* positions in remove whose removeLabel request failed
  result                       \* "none" while main runs, then "true" or "false"
                               \* (what it returned) or "error" (it rejected)

vars == <<pc, IGNORED, INPUT_SIZES, ignored, path, ignoredResult, labels, diffData,
          ukrainianCharactersNumber, hasUpdatedOldMarkdownFiles, sizeLabel, add,
          remove, idx, requests, failed, result>>

-----------------------------------------------------------------------------
(* Bounds of the model.                                                    *)

MaxLabels == 2      \* labels on the pull request when the event arrives
MaxFiles == 2       \* files in the diff
MaxKeys == 2        \* entries of a custom threshold table
MaxKey == 3         \* greatest key of a custom threshold table
MaxMetric == 4      \* greatest metric classified against a custom table
MaxRules == 2       \* lines of the IGNORED input

-----------------------------------------------------------------------------
(* JavaScript values and string methods.                                   *)

\* null / undefined, kept apart from every label name and path.
Null == "<null>"

\* s[i] of a 1-based position.
CharAt(s, i) == SubSeq(s, i, i)

StartsWith(s, p) == Len(s) >= Len(p) /\ SubSeq(s, 1, Len(p)) = p

EndsWith(s, p) == Len(s) >= Len(p) /\ SubSeq(s, Len(s) - Len(p) + 1, Len(s)) = p

\* s.substr(n)
Substr(s, n) == SubSeq(s, n + 1, Len(s))

IsSpace(c) == c \in {" ", "\t", "\n", "\r"}

RECURSIVE TrimStart(_)
TrimStart(s) ==
  IF Len(s) > 0 /\ IsSpace(CharAt(s, 1)) THEN TrimStart(Substr(s, 1)) ELSE s

RECURSIVE TrimEnd(_)
TrimEnd(s) ==
  IF Len(s) > 0 /\ IsSpace(CharAt(s, Len(s)))
  THEN TrimEnd(SubSeq(s, 1, Len(s) - 1))
  ELSE s

\* s.trim()
Trim(s) == TrimEnd(TrimStart(s))

\* str.split(/\r|\n/): cur is the piece being read from position i on.
RECURSIVE SplitLines(_, _, _)
SplitLines(str, i, cur) ==
  IF i > Len(str) THEN <<cur>>
  ELSE IF CharAt(str, i) \in {"\r", "\n"}
       THEN <<cur>> \o SplitLines(str, i + 1, "")
       ELSE SplitLines(str, i + 1, cur \o CharAt(str, i))

\* Array.prototype.filter with the predicate of line 152.
RECURSIVE FilterRuleLines(_)
FilterRuleLines(ls) ==
  IF ls = <<>> THEN <<>>
  ELSE IF Len(Head(ls)) > 0 /\ ~StartsWith(Head(ls), "#")
       THEN <<Head(ls)>> \o FilterRuleLines(Tail(ls))
       ELSE FilterRuleLines(Tail(ls))

-----------------------------------------------------------------------------
\* globrex(glob, {extended: true, globstar: true}).regex, for globs made of
\* literal characters, "/" and runs of "*". The library anchors the regular
\* expression at both ends. A run of two or more "*" that fills a whole path
\* segment becomes GLOBSTAR, any number of pieces that are each a run of
\* non-"/" characters followed by a "/" or by the end of the input, and the "/"
\* after the run is stepped over. Any other run of "*" becomes WILDCARD, a run
\* of non-"/" characters.

\* The last "*" of the run of "*" that starts at position i of glob.
RECURSIVE StarRunEnd(_, _)
StarRunEnd(glob, i) ==
  IF i < Len(glob) /\ CharAt(glob, i + 1) = "*" THEN StarRunEnd(glob, i + 1) ELSE i

NoSlashIn(s, from, to) == \A m \in from..to : CharAt(s, m) # "/"

\* Whether glob from position i on matches s from position j to its end.
RECURSIVE GlobMatch(_, _, _, _)
GlobMatch(glob, i, s, j) ==
  IF i > Len(glob) THEN j > Len(s)
  ELSE IF CharAt(glob, i) = "*"
  THEN LET last == StarRunEnd(glob, i)
           isGlobstar == /\ last > i
                         /\ (i = 1 \/ CharAt(glob, i - 1) = "/")
                         /\ (last = Len(glob) \/ CharAt(glob, last + 1) = "/")
       IN  IF isGlobstar
           THEN \E k \in j..(Len(s) + 1) :
                  /\ (k = j \/ k = Len(s) + 1 \/ CharAt(s, k - 1) = "/")
                  /\ GlobMatch(glob, last + 2, s, k)
           ELSE \E k \in j..(Len(s) + 1) :
                  /\ NoSlashIn(s, j, k - 1)
                  /\ GlobMatch(glob, last + 1, s, k)
  ELSE /\ j <= Len(s)
       /\ CharAt(s, j) = CharAt(glob, i)
       /\ GlobMatch(glob, i + 1, s, j + 1)

\* pathname.match(entry.regex) as a truth value.
RegexMatches(glob, pathname) == GlobMatch(glob, 1, pathname, 1)

-----------------------------------------------------------------------------
(* parseIgnored and the isIgnored closure it returns.                      *)

\* One compiled rule: {not: globrex(...)} or globrex(...).
CompileRule(s) ==
  IF Len(s) > 1 /\ CharAt(s, 1) = "!"
  THEN [not |-> TRUE, glob |-> Substr(s, 1)]
  ELSE [not |-> FALSE, glob |-> s]

\* The `ignored` array of parseIgnored(str).
parseIgnored(str) ==
  LET split == SplitLines(str, 1, "")
      trimmed == [n \in DOMAIN split |-> Trim(split[n])]
      kept == FilterRuleLines(trimmed)
  IN  [n \in DOMAIN kept |-> CompileRule(kept[n])]

\* A plausible slip: the first matching exclude rule decides at once.
RECURSIVE IsIgnoredLoopFirstMatchWins(_, _, _, _)
IsIgnoredLoopFirstMatchWins(rules, k, pathname, ignore) ==
  IF k > Len(rules) THEN ignore
  ELSE IF rules[k].not
       THEN IF RegexMatches(rules[k].glob, pathname)
            THEN FALSE
            ELSE IsIgnoredLoopFirstMatchWins(rules, k + 1, pathname, ignore)
       ELSE IF RegexMatches(rules[k].glob, pathname)
            THEN TRUE
            ELSE IsIgnoredLoopFirstMatchWins(rules, k + 1, pathname, ignore)

\* The for loop of isIgnored from entry k on, `ignore` being its flag so far.
RECURSIVE IsIgnoredLoop(_, _, _, _)
IsIgnoredLoop(rules, k, pathname, ignore) ==
  IF k > Len(rules) THEN ignore
  ELSE IF rules[k].not
       THEN IF RegexMatches(rules[k].glob, pathname)
            THEN FALSE
            ELSE IsIgnoredLoop(rules, k + 1, pathname, ignore)
       ELSE IF ~ignore /\ RegexMatches(rules[k].glob, pathname)
            THEN IsIgnoredLoop(rules, k + 1, pathname, TRUE)
            ELSE IsIgnoredLoop(rules, k + 1, pathname, ignore)

isIgnored(rules, p) ==
  IF p = Null \/ p = "/dev/null" THEN TRUE
  ELSE IsIgnoredLoop(rules, 1, Substr(p, 2), FALSE)

-----------------------------------------------------------------------------
(* The metric of main: added Cyrillic characters.                          *)

\* UKRAINIAN_REGEX = /[\u0400-\u04FF]/g
CyrillicFirst == 1024
CyrillicLast == 1279
\* "+"
PlusSign == 43

IsUkrainian(c) == CyrillicFirst <= c /\ c <= CyrillicLast

\* (line.match(UKRAINIAN_REGEX) || []).length
RECURSIVE MatchCount(_)
MatchCount(line) ==
  IF line = <<>> THEN 0
  ELSE (IF IsUkrainian(Head(line)) THEN 1 ELSE 0) + MatchCount(Tail(line))

\* What one line adds to ukrainianCharactersNumber.
LineIncrement(line) ==
  IF Len(line) > 0 /\ line[1] = PlusSign THEN MatchCount(line) ELSE 0

RECURSIVE LinesIncrement(_)
LinesIncrement(lines) ==
  IF lines = <<>> THEN 0
  ELSE LineIncrement(Head(lines)) + LinesIncrement(Tail(lines))

RECURSIVE HunksIncrement(_)
HunksIncrement(hunks) ==
  IF hunks = <<>> THEN 0
  ELSE LinesIncrement(Head(hunks).lines) + HunksIncrement(Tail(hunks))

\* A plausible slip: a file counts only when neither side is ignored.
FileIsCountedBothSides(rules, file) ==
  ~isIgnored(rules, file.oldFileName) /\ ~isIgnored(rules, file.newFileName)

\* The condition of line 78.
FileIsCounted(rules, file) ==
  ~isIgnored(rules, file.oldFileName) \/ ~isIgnored(rules, file.newFileName)

\* The for loop over diffData, from `total` on.
RECURSIVE CountUkrainian(_, _, _)
CountUkrainian(rules, files, total) ==
  IF files = <<>> THEN total
  ELSE CountUkrainian(rules, Tail(files),
         IF FileIsCounted(rules, Head(files))
         THEN total + HunksIncrement(Head(files).hunks)
         ELSE total)

\* diffData.some(...) of lines 93-99.
HasUpdatedOldMarkdownFiles(files) ==
  \E n \in DOMAIN files :
    /\ files[n].oldFileName # Null
    /\ files[n].newFileName # Null
    /\ EndsWith(files[n].oldFileName, ".md")
    /\ EndsWith(files[n].newFileName, ".md")

-----------------------------------------------------------------------------
(* getSizeLabel. A threshold table is the sequence of its entries in the   *)
(* order the JSON text (or the object literal) lists them.                 *)

defaultSizes ==
  << [key |-> 1, label |-> "XXS"], [key |-> 10, label |-> "XS"],
     [key |-> 100, label |-> "S"], [key |-> 1000, label |-> "M"],
     [key |-> 5000, label |-> "L"], [key |-> 10000, label |-> "XL"],
     [key |-> 20000, label |-> "XXL"] >>

\* getSizesInput(): undefined when INPUT_SIZES is unset or empty.
Undefined == [defined |-> FALSE, table |-> <<>>]

getSizesInput(env) == IF env.defined THEN env ELSE Undefined

RECURSIVE InsertAscending(_, _)
InsertAscending(sorted, k) ==
  IF sorted = <<>> THEN <<k>>
  ELSE IF k < Head(sorted) THEN <<k>> \o sorted
       ELSE <<Head(sorted)>> \o InsertAscending(Tail(sorted), k)

RECURSIVE Ascending(_)
Ascending(keys) ==
  IF keys = <<>> THEN <<>>
  ELSE InsertAscending(Ascending(Tail(keys)), Head(keys))

\* Object.keys(sizes): integer keys come in ascending order.
ObjectKeys(sizes) == Ascending([n \in DOMAIN sizes |-> sizes[n].key])

\* keys.sort((a, b) => a - b)
SortNumeric(keys) == Ascending(keys)

\* sizes[lines]
Lookup(sizes, key) ==
  (CHOOSE e \in {sizes[n] : n \in DOMAIN sizes} : e.key = key).label

\* A plausible slip: > for >=.
RECURSIVE SizeLabelLoopStrict(_, _, _, _)
SizeLabelLoopStrict(changedLines, sizes, keys, label) ==
  IF keys = <<>> THEN label
  ELSE SizeLabelLoopStrict(changedLines, sizes, Tail(keys),
         IF changedLines > Head(keys)
         THEN "size/" \o Lookup(sizes, Head(keys))
         ELSE label)

\* The for loop of getSizeLabel over the keys still to visit.
RECURSIVE SizeLabelLoop(_, _, _, _)
SizeLabelLoop(changedLines, sizes, keys, label) ==
  IF keys = <<>> THEN label
  ELSE SizeLabelLoop(changedLines, sizes, Tail(keys),
         IF changedLines >= Head(keys)
         THEN "size/" \o Lookup(sizes, Head(keys))
         ELSE label)

\* sizesArg is what getSizesInput returned; undefined selects defaultSizes.
getSizeLabel(changedLines, sizesArg) ==
  LET sizes == IF sizesArg.defined THEN sizesArg.table ELSE defaultSizes
  IN  SizeLabelLoop(changedLines, sizes, SortNumeric(ObjectKeys(sizes)), Null)

-----------------------------------------------------------------------------
(* getLabelChanges. A label of the event payload is an object {name};      *)
(* every JavaScript value carries its type, so that === and includes can   *)
(* tell an object from a string.                                           *)

LabelObject(n) == [type |-> "object", name |-> n]

\* existingLabels.includes(str): SameValueZero of each element with a string.
Includes(existingLabels, str) ==
  \E n \in DOMAIN existingLabels :
    existingLabels[n].type = "string" /\ existingLabels[n].value = str

\* add.pop()
Pop(a) == IF a = <<>> THEN <<>> ELSE SubSeq(a, 1, Len(a) - 1)

\* A plausible slip: the other size labels are left on the pull request.
SizeStepKeepsOthers(d, name, newLabel) ==
  IF StartsWith(name, "size/") /\ name = newLabel
  THEN [add |-> Pop(d.add), remove |-> d.remove]
  ELSE d

\* A plausible slip: the already-present case is forgotten.
SizeStepAlwaysRemoves(d, name, newLabel) ==
  IF StartsWith(name, "size/")
  THEN [add |-> d.add, remove |-> Append(d.remove, name)]
  ELSE d

\* The body of the for loop of lines 203-212 for one existing label.
SizeStep(d, name, newLabel) ==
  IF StartsWith(name, "size/")
  THEN IF name = newLabel
       THEN [add |-> Pop(d.add), remove |-> d.remove]
       ELSE [add |-> d.add, remove |-> Append(d.remove, name)]
  ELSE d

RECURSIVE SizeLoop(_, _, _, _)
SizeLoop(d, existingLabels, k, newLabel) ==
  IF k > Len(existingLabels) THEN d
  ELSE SizeLoop(SizeStep(d, existingLabels[k].name, newLabel),
                existingLabels, k + 1, newLabel)

\* Lines 213-221.
TranslationStep(d, existingLabels, newLabel) ==
  IF newLabel = "size/XXS"
  THEN IF Includes(existingLabels, "translation")
       THEN [add |-> d.add, remove |-> Append(d.remove, "translation")]
       ELSE d
  ELSE IF ~Includes(existingLabels, "translation")
       THEN [add |-> Append(d.add, "translation"), remove |-> d.remove]
       ELSE d

\* Lines 222-230.
UpdateStep(d, existingLabels, hasUpdatedOldFiles) ==
  IF hasUpdatedOldFiles
  THEN IF ~Includes(existingLabels, "update")
       THEN [add |-> Append(d.add, "update"), remove |-> d.remove]
       ELSE d
  ELSE IF Includes(existingLabels, "update")
       THEN [add |-> d.add, remove |-> Append(d.remove, "update")]
       ELSE d

getLabelChanges(newLabel, existingLabels, hasUpdatedOldFiles) ==
  UpdateStep(
    TranslationStep(
      SizeLoop([add |-> <<newLabel>>, remove |-> <<>>], existingLabels, 1, newLabel),
      existingLabels, newLabel),
    existingLabels, hasUpdatedOldFiles)

-----------------------------------------------------------------------------
(* The inputs the model draws from.                                        *)

\* Sequences without repetition of at most n elements of S.
DistinctSeqs(S, n) ==
  UNION { { q \in [1..m -> S] : \A a, b \in 1..m : a # b => q[a] # q[b] } : m \in 0..n }

LabelNames == {"size/XXS", "size/S", "size/M", "translation", "update"}

\* The label lists an event payload can carry: objects with unique names.
LabelLists ==
  { [n \in DOMAIN q |-> LabelObject(q[n])] : q \in DistinctSeqs(LabelNames, MaxLabels) }

\* Diff lines as UTF-16 code units: 43 "+", 45 "-", 32 " ", 97 and 98 Latin,
\* 1082 and 1103 Cyrillic, 1023 and 1280 the neighbours of the Cyrillic block.
AddedCyrillic2 == <<43, 1103, 1082>>
AddedCyrillic1 == <<43, 97, 1103>>
AddedLatin == <<43, 97, 98>>
AddedEdges == <<43, 1023, 1024, 1279, 1280>>
RemovedCyrillic == <<45, 1103, 1103>>
ContextCyrillic == <<32, 1082>>

\* The files Diff.parsePatch can return.
DiffFiles ==
  { [oldFileName |-> "a/x.md", newFileName |-> "b/x.md",
     hunks |-> << [lines |-> <<ContextCyrillic, RemovedCyrillic, AddedCyrillic2>>] >>],
    [oldFileName |-> "/dev/null", newFileName |-> "b/docs/other.md",
     hunks |-> << [lines |-> <<AddedEdges>>] >>],
    [oldFileName |-> "/dev/null", newFileName |-> "b/docs/keep.md",
     hunks |-> << [lines |-> <<AddedCyrillic1>>] >>],
    [oldFileName |-> "a/docs/other.md", newFileName |-> "b/y.txt",
     hunks |-> << [lines |-> <<AddedCyrillic1>>],
                  [lines |-> <<RemovedCyrillic, AddedLatin>>] >>],
    [oldFileName |-> "a/z.js", newFileName |-> "b/z.js",
     hunks |-> << [lines |-> <<ContextCyrillic, AddedLatin>>] >>] }

Diffs == DistinctSeqs(DiffFiles, MaxFiles)

\* Values of the IGNORED input in a run of main.
MainIgnoredInputs == {"", "docs/**\n!docs/keep.md"}

\* Values of the sizes input in a run of main.
CustomSizes ==
  [defined |-> TRUE,
   table |-> << [key |-> 2, label |-> "S"], [key |-> 1, label |-> "XXS"],
                [key |-> 3, label |-> "M"] >>]

MainSizesInputs == {Undefined, CustomSizes}

\* eventData.action
actions == {"opened", "synchronize", "reopened"}
EventActions == {"synchronize", "closed"}

-----------------------------------------------------------------------------
(* main. The environment checks and the reading of the event file (lines   *)
(* 29-46) belong to the I/O boundary; the run starts with the event read.  *)

Init ==
  /\ pc = "start"
  /\ IGNORED \in MainIgnoredInputs
  /\ INPUT_SIZES \in MainSizesInputs
  /\ ignored = <<>>
  /\ path = Null
  /\ ignoredResult = FALSE
  /\ labels = <<>>
  /\ diffData = <<>>
  /\ ukrainianCharactersNumber = 0
  /\ hasUpdatedOldMarkdownFiles = FALSE
  /\ sizeLabel = Null
  /\ add = <<>>
  /\ remove = <<>>
  /\ idx = 1
  /\ requests = <<>>
  /\ failed = {}
  /\ result = "none"

\* Lines 48-53: an event of another action is ignored; otherwise the rules
\* are compiled and the diff is requested.
Start ==
  /\ pc = "start"
  /\ \E a \in EventActions, ls \in LabelLists :
       IF a \notin actions
       THEN /\ pc' = "ignored_event"
            /\ result' = "false"
            /\ UNCHANGED <<ignored, labels>>
       ELSE /\ pc' = "fetch"
            /\ labels' = ls
            /\ ignored' = parseIgnored(IGNORED)
            /\ UNCHANGED result
  /\ UNCHANGED <<IGNORED, INPUT_SIZES, path, ignoredResult, diffData,
                 ukrainianCharactersNumber, hasUpdatedOldMarkdownFiles, sizeLabel,
                 add, remove, idx, requests, failed>>

\* Lines 67-113: octokit.pulls.get answers with a diff (or rejects), and the
\* metric, the size label and the delta are computed from it.
Analyze ==
  /\ pc = "fetch"
  /\ \/ /\ pc' = "fetch_rejected"
        /\ result' = "error"
        /\ UNCHANGED <<diffData, ukrainianCharactersNumber,
                       hasUpdatedOldMarkdownFiles, sizeLabel, add, remove>>
     \/ \E files \in Diffs :
          LET count == CountUkrainian(ignored, files, 0)
              updated == HasUpdatedOldMarkdownFiles(files)
              label == getSizeLabel(count, getSizesInput(INPUT_SIZES))
              d == getLabelChanges(label, labels, updated)
          IN  /\ diffData' = files
              /\ ukrainianCharactersNumber' = count
              /\ hasUpdatedOldMarkdownFiles' = updated
              /\ sizeLabel' = label
              /\ add' = d.add
              /\ remove' = d.remove
              /\ IF Len(d.add) = 0 /\ Len(d.remove) = 0
                 THEN pc' = "no_change" /\ result' = "false"
                 ELSE /\ pc' = IF Len(d.add) > 0 THEN "addLabels" ELSE "removeLabels"
                      /\ UNCHANGED result
  /\ UNCHANGED <<IGNORED, INPUT_SIZES, ignored, path, ignoredResult, labels, idx,
                 requests, failed>>

\* Lines 115-122: one addLabels request; its rejection rejects main.
AddLabels ==
  /\ pc = "addLabels"
  /\ requests' = Append(requests, [op |-> "addLabels", labels |-> add])
  /\ \E ok \in BOOLEAN :
       IF ok
       THEN pc' = "removeLabels" /\ UNCHANGED result
       ELSE pc' = "add_rejected" /\ result' = "error"
  /\ UNCHANGED <<IGNORED, INPUT_SIZES, ignored, path, ignoredResult, labels, diffData,
                 ukrainianCharactersNumber, hasUpdatedOldMarkdownFiles, sizeLabel, add,
                 remove, idx, failed>>

\* A plausible slip: no try/catch around removeLabel.
RemoveLabelUncaught ==
  /\ pc = "removeLabels"
  /\ idx <= Len(remove)
  /\ requests' = Append(requests, [op |-> "removeLabel", name |-> remove[idx]])
  /\ \E ok \in BOOLEAN :
       IF ok
       THEN pc' = pc /\ idx' = idx + 1 /\ failed' = failed /\ UNCHANGED result
       ELSE /\ pc' = "remove_rejected"
            /\ idx' = idx
            /\ failed' = failed \cup {idx}
            /\ result' = "error"
  /\ UNCHANGED <<IGNORED, INPUT_SIZES, ignored, path, ignoredResult, labels, diffData,
                 ukrainianCharactersNumber, hasUpdatedOldMarkdownFiles, sizeLabel, add,
                 remove>>

\* Lines 124-135: one turn of the removal loop; a rejection is caught.
RemoveLabel ==
  /\ pc = "removeLabels"
  /\ idx <= Len(remove)
  /\ requests' = Append(requests, [op |-> "removeLabel", name |-> remove[idx]])
  /\ \E ok \in BOOLEAN : failed' = IF ok THEN failed ELSE failed \cup {idx}
  /\ idx' = idx + 1
  /\ UNCHANGED <<pc, IGNORED, INPUT_SIZES, ignored, path, ignoredResult, labels,
                 diffData, ukrainianCharactersNumber, hasUpdatedOldMarkdownFiles,
                 sizeLabel, add, remove, result>>

\* Lines 137-139.
Finish ==
  /\ pc = "removeLabels"
  /\ idx > Len(remove)
  /\ pc' = "success"
  /\ result' = "true"
  /\ UNCHANGED <<IGNORED, INPUT_SIZES, ignored, path, ignoredResult, labels, diffData,
                 ukrainianCharactersNumber, hasUpdatedOldMarkdownFiles, sizeLabel, add,
                 remove, idx, requests, failed>>

Next == Start \/ Analyze \/ AddLabels \/ RemoveLabel \/ Finish

Spec == Init /\ [][Next]_vars

-----------------------------------------------------------------------------
(* getSizeLabel on its own: every table of at most MaxKeys entries with    *)
(* unique keys, in every listing order, and the default table.             *)

TierNames == {"XXS", "S", "M"}

CustomTables ==
  { q \in UNION { [1..m -> [key : 0..MaxKey, label : TierNames]] : m \in 0..MaxKeys } :
      \A a, b \in DOMAIN q : a # b => q[a].key # q[b].key }

SizesInputs == {Undefined} \cup { [defined |-> TRUE, table |-> t] : t \in CustomTables }

\* The metrics classified: the small ones and both sides of each default key.
Metrics ==
  (0..MaxMetric) \cup
  UNION { {defaultSizes[n].key - 1, defaultSizes[n].key, defaultSizes[n].key + 1} :
          n \in DOMAIN defaultSizes }

InitSize ==
  /\ pc = "size_input"
  /\ INPUT_SIZES \in SizesInputs
  /\ ukrainianCharactersNumber \in Metrics
  /\ IGNORED = ""
  /\ ignored = <<>>
  /\ path = Null
  /\ ignoredResult = FALSE
  /\ labels = <<>>
  /\ diffData = <<>>
  /\ hasUpdatedOldMarkdownFiles = FALSE
  /\ sizeLabel = Null
  /\ add = <<>>
  /\ remove = <<>>
  /\ idx = 1
  /\ requests = <<>>
  /\ failed = {}
  /\ result = "none"

\* Line 101.
Classify ==
  /\ pc = "size_input"
  /\ sizeLabel' = getSizeLabel(ukrainianCharactersNumber, getSizesInput(INPUT_SIZES))
  /\ pc' = "classified"
  /\ UNCHANGED <<IGNORED, INPUT_SIZES, ignored, path, ignoredResult, labels, diffData,
                 ukrainianCharactersNumber, hasUpdatedOldMarkdownFiles, add, remove,
                 idx, requests, failed, result>>

NextSize == Classify

SpecSize == InitSize /\ [][NextSize]_vars

-----------------------------------------------------------------------------
(* parseIgnored and isIgnored on their own: every IGNORED text of at most  *)
(* MaxRules lines, queried with every path.                                *)

RuleLines == {"docs/**", "!docs/keep.md", "*.md", "# docs/**", "  ", "!"}

RECURSIVE JoinLines(_)
JoinLines(ls) ==
  IF ls = <<>> THEN ""
  ELSE IF Len(ls) = 1 THEN Head(ls)
       ELSE Head(ls) \o "\n" \o JoinLines(Tail(ls))

IgnoredInputs ==
  { JoinLines(q) : q \in UNION { [1..m -> RuleLines] : m \in 0..MaxRules } }

Paths ==
  { Null, "/dev/null", "a/docs/keep.md", "a/docs/other.md", "b/docs/sub/other.md",
    "b/x.md", "a/src/x.md", "b/docs", "a/!" }

InitIgnore ==
  /\ pc = "ignore_input"
  /\ IGNORED \in IgnoredInputs
  /\ INPUT_SIZES = Undefined
  /\ ignored = <<>>
  /\ path = Null
  /\ ignoredResult = FALSE
  /\ labels = <<>>
  /\ diffData = <<>>
  /\ ukrainianCharactersNumber = 0
  /\ hasUpdatedOldMarkdownFiles = FALSE
  /\ sizeLabel = Null
  /\ add = <<>>
  /\ remove = <<>>
  /\ idx = 1
  /\ requests = <<>>
  /\ failed = {}
  /\ result = "none"

\* Line 53.
Compile ==
  /\ pc = "ignore_input"
  /\ ignored' = parseIgnored(IGNORED)
  /\ pc' = "compiled"
  /\ UNCHANGED <<IGNORED, INPUT_SIZES, path, ignoredResult, labels, diffData,
                 ukrainianCharactersNumber, hasUpdatedOldMarkdownFiles, sizeLabel, add,
                 remove, idx, requests, failed, result>>

\* One call of the returned predicate (line 78).
Query ==
  /\ pc \in {"compiled", "queried"}
  /\ \E p \in Paths :
       /\ path' = p
       /\ ignoredResult' = isIgnored(ignored, p)
  /\ pc' = "queried"
  /\ UNCHANGED <<IGNORED, INPUT_SIZES, ignored, labels, diffData,
                 ukrainianCharactersNumber, hasUpdatedOldMarkdownFiles, sizeLabel, add,
                 remove, idx, requests, failed, result>>

NextIgnore == Compile \/ Query

SpecIgnore == InitIgnore /\ [][NextIgnore]_vars

-----------------------------------------------------------------------------
(* Properties of the label delta (specification Spec).                     *)

\* main has computed the delta of this run: add and remove hold it.
DeltaComputed ==
  pc \in {"addLabels", "removeLabels", "no_change", "success", "add_rejected"}

InSeq(x, q) == \E n \in DOMAIN q : q[n] = x

NamesOf(ls) == { ls[n].name : n \in DOMAIN ls }

SizeNames(S) == { n \in S : StartsWith(n, "size/") }

\* The names on the pull request once the labels of d.add are attached and
\* those of d.remove detached; null names no label.
NamesAfter(ls, d) ==
  (NamesOf(ls) \cup ({ d.add[n] : n \in DOMAIN d.add } \ {Null}))
    \ { d.remove[n] : n \in DOMAIN d.remove }

\* The label list the next event carries for a set of names.
RECURSIVE LabelListOf(_)
LabelListOf(S) ==
  IF S = {} THEN <<>>
  ELSE LET n == CHOOSE m \in S : TRUE
       IN  <<LabelObject(n)>> \o LabelListOf(S \ {n})

\* C1: reconciling again, with the same desired size label and flag, against
\* the labels that result from applying the delta yields an empty delta
\* (stated for the runs that have a size label to assign).
C1_Idempotent ==
  (DeltaComputed /\ sizeLabel # Null) =>
    LET after == LabelListOf(NamesAfter(labels, [add |-> add, remove |-> remove]))
        again == getLabelChanges(sizeLabel, after, hasUpdatedOldMarkdownFiles)
    IN  again.add = <<>> /\ again.remove = <<>>

\* C2: for size/XXS, translation is removed iff present and never added; for
\* any other size label it is added iff absent and never removed; current
\* labels [size/S, translation] with desired size/M give add = [size/M],
\* remove = [size/S].
C2_TranslationRule ==
  DeltaComputed =>
    /\ sizeLabel = "size/XXS" =>
         /\ InSeq("translation", remove) <=> "translation" \in NamesOf(labels)
         /\ ~InSeq("translation", add)
    /\ sizeLabel # "size/XXS" =>
         /\ InSeq("translation", add) <=> "translation" \notin NamesOf(labels)
         /\ ~InSeq("translation", remove)
    /\ ( /\ labels = <<LabelObject("size/S"), LabelObject("translation")>>
         /\ sizeLabel = "size/M"
         /\ ~hasUpdatedOldMarkdownFiles )
       => add = <<"size/M">> /\ remove = <<"size/S">>

\* C3: when a stable Markdown file was touched, update is added iff absent and
\* never removed; otherwise it is removed iff present and never added.
C3_UpdateRule ==
  DeltaComputed =>
    /\ hasUpdatedOldMarkdownFiles =>
         /\ InSeq("update", add) <=> "update" \notin NamesOf(labels)
         /\ ~InSeq("update", remove)
    /\ ~hasUpdatedOldMarkdownFiles =>
         /\ InSeq("update", remove) <=> "update" \in NamesOf(labels)
         /\ ~InSeq("update", add)

\* The threshold table main classified with.
SizesUsed == IF INPUT_SIZES.defined THEN INPUT_SIZES.table ELSE defaultSizes

\* C4: a metric of 0 below every key gives no size label; every current size
\* label is then removed and add holds no size entry, null included.
C4_NoSizeLabel ==
  ( /\ DeltaComputed
    /\ ukrainianCharactersNumber = 0
    /\ \A n \in DOMAIN SizesUsed : SizesUsed[n].key > 0 )
  => /\ sizeLabel = Null
     /\ \A n \in SizeNames(NamesOf(labels)) : InSeq(n, remove)
     /\ \A n \in DOMAIN add : add[n] # Null /\ ~StartsWith(add[n], "size/")

\* C5: with a desired size label, applying the delta leaves exactly that size
\* label on the pull request: it is added unless already there, and every other
\* current size label is removed.
C5_ExactlyOneSizeLabel ==
  (DeltaComputed /\ sizeLabel # Null) =>
    /\ SizeNames(NamesAfter(labels, [add |-> add, remove |-> remove])) = {sizeLabel}
    /\ InSeq(sizeLabel, add) <=> sizeLabel \notin NamesOf(labels)
    /\ \A n \in SizeNames(NamesOf(labels)) : n # sizeLabel => InSeq(n, remove)

\* C5's case: a desired label that is added while another size label is present.
C5_Witness ==
  /\ DeltaComputed
  /\ sizeLabel = "size/M"
  /\ InSeq("size/M", add)
  /\ "size/S" \in NamesOf(labels)

\* C8: no name is both in add and in remove.
C8_AddRemoveDisjoint ==
  DeltaComputed => \A a \in DOMAIN add, r \in DOMAIN remove : add[a] # remove[r]

\* C8's case: a delta that both adds and removes.
C8_Witness ==
  /\ DeltaComputed
  /\ Len(add) >= 2
  /\ Len(remove) >= 2

-----------------------------------------------------------------------------
(* The requests of main (specification Spec).                              *)

\* The requests a run issues when none of them stops it.
ExpectedRequests ==
  (IF Len(add) > 0 THEN << [op |-> "addLabels", labels |-> add] >> ELSE <<>>)
    \o [n \in 1..Len(remove) |-> [op |-> "removeLabel", name |-> remove[n]]]

IsPrefix(q, r) == Len(q) <= Len(r) /\ q = SubSeq(r, 1, Len(q))

\* C9: the add request, if any, comes before every removal; removals follow in
\* list order; a failed removal stops neither the later removals nor the run,
\* which returns true; an empty delta issues no request and returns normally.
C9_RequestOrder ==
  /\ DeltaComputed => IsPrefix(requests, ExpectedRequests)
  /\ ~DeltaComputed => requests = <<>> /\ failed = {}
  /\ failed # {} => pc \in {"removeLabels", "success"}
  /\ pc = "removeLabels" => result = "none" /\ Len(requests) = idx - 1 + (IF Len(add) > 0 THEN 1 ELSE 0)
  /\ pc = "success" => result = "true" /\ requests = ExpectedRequests
  /\ pc = "no_change" <=> (DeltaComputed /\ add = <<>> /\ remove = <<>>)
  /\ pc = "no_change" => result = "false" /\ requests = <<>>

\* C9's case: a run that added, had its first of two removals fail, and
\* returned true.
C9_Witness ==
  /\ pc = "success"
  /\ Len(add) > 0
  /\ Len(remove) >= 2
  /\ 1 \in failed
  /\ 2 \notin failed

-----------------------------------------------------------------------------
(* The metric of main (specification Spec).                                *)

\* The places of the diff that count: a Cyrillic code unit on a "+" line of a
\* file of which at least one side is not ignored.
CountedPlaces ==
  { p \in UNION { UNION { UNION { { <<f, h, l, c>> :
                                    c \in DOMAIN diffData[f].hunks[h].lines[l] } :
                                  l \in DOMAIN diffData[f].hunks[h].lines } :
                          h \in DOMAIN diffData[f].hunks } :
                  f \in DOMAIN diffData } :
      LET file == diffData[p[1]]
          line == file.hunks[p[2]].lines[p[3]]
      IN  /\ ~(isIgnored(ignored, file.oldFileName) /\ isIgnored(ignored, file.newFileName))
          /\ line[1] = 43
          /\ 1024 <= line[p[4]] /\ line[p[4]] <= 1279 }

\* C10: the metric is the number of Cyrillic characters on "+" lines of the
\* files that have a side that is not ignored, and is never negative.
C10_Metric ==
  /\ ukrainianCharactersNumber >= 0
  /\ DeltaComputed => ukrainianCharactersNumber = Cardinality(CountedPlaces)

HasAddedCyrillic(file) ==
  \E h \in DOMAIN file.hunks : \E l \in DOMAIN file.hunks[h].lines :
    /\ file.hunks[h].lines[l][1] = 43
    /\ \E c \in DOMAIN file.hunks[h].lines[l] : IsUkrainian(file.hunks[h].lines[l][c])

\* C10's case: a diff with a skipped file and a file counted for one side only,
\* both with added Cyrillic text.
C10_Witness ==
  /\ DeltaComputed
  /\ ukrainianCharactersNumber > 0
  /\ \E f \in DOMAIN diffData :
       /\ HasAddedCyrillic(diffData[f])
       /\ isIgnored(ignored, diffData[f].oldFileName)
       /\ isIgnored(ignored, diffData[f].newFileName)
  /\ \E f \in DOMAIN diffData :
       /\ HasAddedCyrillic(diffData[f])
       /\ diffData[f].oldFileName # "/dev/null"
       /\ isIgnored(ignored, diffData[f].oldFileName)
       /\ ~isIgnored(ignored, diffData[f].newFileName)

-----------------------------------------------------------------------------
(* getSizeLabel (specification SpecSize).                                  *)

\* The position of a label of the default table, 0 for no label.
TierIndex(label) ==
  IF label = Null THEN 0
  ELSE CHOOSE n \in DOMAIN defaultSizes : label = "size/" \o defaultSizes[n].label

\* C6: getSizeLabel returns "size/" and the tier of the greatest key that is at
\* most the metric, null when there is none, whatever the order the table lists
\* its keys in; with the default table the tier never decreases as the metric
\* grows.
C6_GreatestKeyAtMostMetric ==
  pc = "classified" =>
    LET below == { n \in DOMAIN SizesUsed : SizesUsed[n].key <= ukrainianCharactersNumber }
    IN  /\ below = {} => sizeLabel = Null
        /\ below # {} =>
             \E n \in below :
               /\ \A m \in below : SizesUsed[m].key <= SizesUsed[n].key
               /\ sizeLabel = "size/" \o SizesUsed[n].label
        /\ ~INPUT_SIZES.defined =>
             \A m \in Metrics :
               m < ukrainianCharactersNumber =>
                 TierIndex(getSizeLabel(m, Undefined)) <= TierIndex(sizeLabel)

\* C6's case: a table that lists its greater key first, and a metric equal to
\* that key.
C6_Witness ==
  /\ pc = "classified"
  /\ INPUT_SIZES.defined
  /\ Len(INPUT_SIZES.table) = 2
  /\ INPUT_SIZES.table[1].key > INPUT_SIZES.table[2].key
  /\ INPUT_SIZES.table[1].label # INPUT_SIZES.table[2].label
  /\ ukrainianCharactersNumber = INPUT_SIZES.table[1].key
  /\ sizeLabel = "size/" \o INPUT_SIZES.table[1].label

-----------------------------------------------------------------------------
(* isIgnored (specification SpecIgnore).                                   *)

\* C7: a null or /dev/null path is ignored; any other path, its two leading
\* characters dropped, is not ignored when some negate rule matches it, wherever
\* that rule stands, and otherwise is ignored iff some exclude rule matches it.
\* With the rules docs/** and !docs/keep.md, a/docs/keep.md is not ignored and
\* a/docs/other.md is.
C7_NegateOverrides ==
  pc = "queried" =>
    /\ ignoredResult =
         IF path = Null \/ path = "/dev/null" THEN TRUE
         ELSE IF \E n \in DOMAIN ignored :
                   ignored[n].not /\ RegexMatches(ignored[n].glob, Substr(path, 2))
              THEN FALSE
              ELSE \E n \in DOMAIN ignored :
                     ~ignored[n].not /\ RegexMatches(ignored[n].glob, Substr(path, 2))
    /\ IGNORED \in {"docs/**\n!docs/keep.md", "!docs/keep.md\ndocs/**"} =>
         /\ path = "a/docs/keep.md" => ~ignoredResult
         /\ path = "a/docs/other.md" => ignoredResult

\* C7's case: the negate rule is declared after the exclude rule that matches.
C7_Witness ==
  /\ pc = "queried"
  /\ IGNORED = "docs/**\n!docs/keep.md"
  /\ path = "a/docs/keep.md"
  /\ ~ignoredResult

====
